---- MODULE Spec2Model ----
(***************************************************************************)
(* A model of the retrieval core of the voice/RAG service:                 *)
(*   backend/rag_engine.py   RAGEngine (index, persistence, retrieval,     *)
(*                           answer generation)                            *)
(*   backend/main.py         the HTTP front-end that owns one RAGEngine    *)
(*                                                                         *)
(* Texts are sequences of symbols: a word symbol stands for one            *)
(* whitespace-delimited token, NL for the newline extract_text_from_pdf    *)
(* puts after every page.  A chunk is the sequence of its words (the       *)
(* single spaces " ".join puts between them are implicit).                 *)
(***************************************************************************)
EXTENDS Integers, Sequences, FiniteSets, TLC

\* ------------------------------------------------------------- bounds
\* Files 1..NFiles may be put into the PDF directory.
NFiles == 5
\* Number of words of the long document (file 5): one more than
\* chunk_size - overlap words, so that it yields two chunks.
LongLen == 451
\* Callers that may have a call in flight at once in SpecConc.
NCallers == 2
\* chunk_text alone is run on texts of up to MaxTokens tokens, with
\* chunk_size and overlap up to MaxChunk.
MaxTokens == 6
MaxChunk == 4
\* retrieve_context alone is run on indexes of up to MaxRows chunks, with
\* top_k up to MaxTopK.
MaxRows == 4
MaxTopK == 3
\* Voice calls are run with every speech of up to MaxSpeech letters.
MaxSpeech == 3

\* -------------------------------------------------- program constants
ChunkSize == 500
Overlap == 50
TopK == 3

NL == "NL"
\* The index vocabulary can only hold these terms; the sequence is their
\* alphabetical order, which is the column order of the TF-IDF matrix.
TermOrder == <<"cat", "dog">>
Terms == {TermOrder[i] : i \in 1..Len(TermOrder)}
\* "the" is in scikit-learn's english stop word list.
StopWords == {"the"}

Files == 1..NFiles
Callers == 1..NCallers

Min(a, b) == IF a < b THEN a ELSE b

RECURSIVE Gcd(_, _)
Gcd(a, b) == IF b = 0 THEN a ELSE Gcd(b, a % b)

RECURSIVE SeqSum(_)
SeqSum(s) == IF s = <<>> THEN 0 ELSE Head(s) + SeqSum(Tail(s))

RECURSIVE SeqGcd(_)
SeqGcd(s) == IF s = <<>> THEN 0 ELSE Gcd(Head(s), SeqGcd(Tail(s)))

RECURSIVE Flatten(_)
Flatten(ss) == IF ss = <<>> THEN <<>> ELSE Head(ss) \o Flatten(Tail(ss))

\* The elements of a set of integers in increasing order.
RECURSIVE SortedSeq(_)
SortedSeq(S) ==
    IF S = {} THEN <<>>
    ELSE LET m == CHOOSE x \in S : \A y \in S : x <= y
         IN <<m>> \o SortedSeq(S \ {m})

\* ------------------------------------------------- the PDF directory
\* The documents that can be in the directory.  File 4 is not a PDF
\* (notes.txt); file 3 is a PDF that PdfReader cannot read.
IsPdf(f) == f # 4
Corrupt(f) == f = 3
Pages(f) ==
    CASE f = 1 -> << <<"cat", "dog">> >>
      [] f = 2 -> << <<"the">> >>
      [] f = 5 -> << [i \in 1..LongLen |-> "dog"] >>
      [] OTHER -> << <<"cat">> >>

\* rag_engine.py:39-49
extract_text_from_pdf(f) ==
    IF Corrupt(f) THEN <<>>
    ELSE Flatten([p \in 1..Len(Pages(f)) |-> Pages(f)[p] \o <<NL>>])

\* str.split(): the whitespace-delimited tokens
split(text) == SelectSeq(text, LAMBDA c : c # NL)

\* range(0, len(words), 0) raises ValueError (rag_engine.py:56)
chunk_text_raises(chunk_size, overlap) == chunk_size - overlap = 0

\* rag_engine.py:51-61, for chunk_size # overlap: range(0, n, step) is
\* empty for a negative step, and an empty slice is not appended (line 58)
chunk_text(text, chunk_size, overlap) ==
    LET words == split(text)
        step == chunk_size - overlap
        n == Len(words)
        count == IF step > 0 THEN (n + step - 1) \div step ELSE 0
        slices == [k \in 1..count |->
                     SubSeq(words, (k - 1) * step + 1, Min((k - 1) * step + chunk_size, n))]
    IN SelectSeq(slices, LAMBDA c : c # <<>>)

\* os.listdir filtered by .endswith('.pdf'); the listing order is the
\* file system's, taken here as the order of the file numbers.
pdf_files(dirFiles) == SortedSeq({f \in dirFiles : IsPdf(f)})

\* DocEntries, were the chunks of a document numbered from 1
DocEntries_OneBasedIds(f) ==
    LET text == extract_text_from_pdf(f)
        chunks == IF text = <<>> THEN <<>> ELSE chunk_text(text, ChunkSize, Overlap)
    IN [k \in 1..Len(chunks) |-> [text |-> chunks[k], source |-> f, chunk_id |-> k]]

\* The metadata entries one document contributes (rag_engine.py:103-121)
DocEntries(f) ==
    LET text == extract_text_from_pdf(f)
        chunks == IF text = <<>> THEN <<>> ELSE chunk_text(text, ChunkSize, Overlap)
    IN [k \in 1..Len(chunks) |-> [text |-> chunks[k], source |-> f, chunk_id |-> k - 1]]

\* ------------------------------------------------- TF-IDF vectorizer
\* round(10 * (ln((1 + n) / (1 + df)) + 1)): scikit-learn's smoothed idf
\* in tenths, for n documents of which df hold the term.
IdfTable ==
    << <<10>>,
       <<14, 10>>,
       <<17, 13, 10>>,
       <<19, 15, 12, 10>>,
       <<21, 17, 14, 12, 10>>,
       <<23, 18, 16, 13, 12, 10>>,
       <<24, 20, 17, 15, 13, 11, 10>>,
       <<25, 21, 18, 16, 14, 13, 11, 10>>,
       <<26, 22, 19, 17, 15, 14, 12, 11, 10>> >>
Idf(n, df) == IdfTable[n][df]

\* The tokens the vectorizer keeps of a chunk or a query.
Tokens(words) == SelectSeq(words, LAMBDA w : w \notin StopWords)
Tf(words, term) == Cardinality({i \in 1..Len(words) : words[i] = term})

\* L2 normalisation keeps a row's direction; a row is held as the smallest
\* integer vector of that direction and the norm is applied when two
\* similarities are compared (ScoreLess).
Normalize(row) ==
    LET g == SeqGcd(row)
    IN IF g = 0 THEN row ELSE [c \in 1..Len(row) |-> row[c] \div g]

UnfittedVectorizer == [fitted |-> FALSE, vocab |-> <<>>, idf |-> <<>>]

VocabOf(chunks) ==
    SelectSeq(TermOrder, LAMBDA t : \E i \in 1..Len(chunks) : Tf(Tokens(chunks[i]), t) > 0)

\* TfidfVectorizer.fit on the chunks: vocabulary_ and idf_
Fit(chunks) ==
    LET vocab == VocabOf(chunks)
        n == Len(chunks)
        df(t) == Cardinality({i \in 1..n : Tf(Tokens(chunks[i]), t) > 0})
    IN [fitted |-> TRUE, vocab |-> vocab,
        idf |-> [c \in 1..Len(vocab) |-> Idf(n, df(vocab[c]))]]

\* TfidfVectorizer.transform of one text with a fitted vectorizer
Transform(vz, words) ==
    Normalize([c \in 1..Len(vz.vocab) |-> Tf(Tokens(words), vz.vocab[c]) * vz.idf[c]])

\* fit_transform raises ValueError("empty vocabulary") when no chunk holds
\* a term (rag_engine.py:125)
FitRaises(chunks) == VocabOf(chunks) = <<>>

NoVectors == [none |-> TRUE, rows |-> <<>>, ncols |-> 0]
Matrix(rows, ncols) == [none |-> FALSE, rows |-> rows, ncols |-> ncols]

FitTransform(chunks) ==
    LET vz == Fit(chunks)
    IN Matrix([i \in 1..Len(chunks) |-> Transform(vz, chunks[i])], Len(vz.vocab))

NumRows(v) == IF v.none THEN 0 ELSE Len(v.rows)

\* ------------------------------------------------------- retrieval
Dot(a, b) == SeqSum([c \in 1..Len(a) |-> a[c] * b[c]])
Norm2(a) == Dot(a, a)

\* cosine similarity of query vector q to row a is smaller than to row b
ScoreLess(q, a, b) ==
    LET da == Dot(q, a)
        db == Dot(q, b)
    IN IF db = 0 THEN FALSE
       ELSE IF da = 0 THEN TRUE
       ELSE da * da * Norm2(b) < db * db * Norm2(a)

\* top_indices as it would be without the reversal [::-1]: the top_k
\* best rows in increasing order of score
top_indices_NotReversed(q, rows, top_k) ==
    LET n == Len(rows)
        Before(i, j) == ScoreLess(q, rows[j], rows[i])
                        \/ (~ScoreLess(q, rows[i], rows[j]) /\ ~ScoreLess(q, rows[j], rows[i]) /\ i > j)
        pos(i) == Cardinality({j \in 1..n : j # i /\ Before(j, i)})
        m == Min(top_k, n)
    IN [p \in 1..m |-> CHOOSE i \in 1..n : pos(i) = m - p]

\* np.argsort(similarities)[-top_k:][::-1] (rag_engine.py:165).  For the
\* short arrays of this model numpy sorts by insertion, which is stable:
\* equal scores stay in row order, so after the reversal the later row
\* comes first.
top_indices(q, rows, top_k) ==
    LET n == Len(rows)
        Before(i, j) == ScoreLess(q, rows[j], rows[i])
                        \/ (~ScoreLess(q, rows[i], rows[j]) /\ ~ScoreLess(q, rows[j], rows[i]) /\ i > j)
        pos(i) == Cardinality({j \in 1..n : j # i /\ Before(j, i)})
    IN [p \in 1..Min(top_k, n) |-> CHOOSE i \in 1..n : pos(i) = p - 1]

\* retrieve_context as it would be without the test score > 0 of line 171
retrieve_context_NoScoreTest(query, top_k, md, vecs, vz) ==
    IF vecs.none \/ Len(md) = 0 THEN <<>>
    ELSE IF ~vz.fitted THEN <<>>
    ELSE LET q == Transform(vz, query)
         IN IF SeqSum(q) = 0 THEN <<>>
            ELSE IF Len(q) # vecs.ncols THEN <<>>
            ELSE LET top == top_indices(q, vecs.rows, top_k)
                 IN IF \E k \in 1..Len(top) : top[k] > Len(md) THEN <<>>
                    ELSE [k \in 1..Len(top) |-> md[top[k]].text]

\* rag_engine.py:135-182, on the index (md, vecs, vz)
retrieve_context(query, top_k, md, vecs, vz) ==
    IF vecs.none \/ Len(md) = 0 THEN <<>>
    ELSE IF ~vz.fitted THEN <<>>                       \* AttributeError, caught
    ELSE LET q == Transform(vz, query)
         IN IF SeqSum(q) = 0 THEN <<>>                 \* query_vector.nnz == 0
            ELSE IF Len(q) # vecs.ncols THEN <<>>      \* ValueError, caught
            ELSE LET top == top_indices(q, vecs.rows, top_k)
                     hits == SelectSeq(top, LAMBDA i : Dot(q, vecs.rows[i]) > 0)
                 IN IF \E k \in 1..Len(hits) : hits[k] > Len(md) THEN <<>>  \* IndexError, caught
                    ELSE [k \in 1..Len(hits) |-> md[hits[k]].text]

\* ------------------------------------------------ answer generation
NoInfoAnswer == "I couldn't find relevant information in the knowledge base. Please make sure PDFs are ingested."
FallbackAnswer == "I don't have this information in the knowledge base provided."
GeneratedText == "generated answer"
ProviderErrorText == "provider error body"

\* What the hosted model does with one POST (rag_engine.py:231-243):
\*   exc   requests.post raises (connection error, timeout raised by the library)
\*   http  a response arrives: its status code, whether its body parses as
\*         JSON, how many candidates it lists and whether the first one has
\*         content.parts[0].text
\*   hang  no response ever arrives (the call passes no timeout)
NoRequest == [kind |-> "none", status_code |-> 0, json_ok |-> FALSE, candidates |-> 0, wellformed |-> FALSE, text |-> ""]
Hang == [NoRequest EXCEPT !.kind = "hang"]
NetError == [NoRequest EXCEPT !.kind = "exc"]
Http(code, json_ok, candidates, wellformed, text) ==
    [kind |-> "http", status_code |-> code, json_ok |-> json_ok, candidates |-> candidates,
     wellformed |-> wellformed, text |-> text]
GeneratorSuccess == Http(200, TRUE, 1, TRUE, GeneratedText)
GeneratorFailures ==
    { NetError,
      Http(500, TRUE, 0, FALSE, ProviderErrorText),   \* non-success status
      Http(200, FALSE, 0, FALSE, ProviderErrorText),  \* body is not JSON
      Http(200, TRUE, 0, FALSE, ProviderErrorText),   \* no candidates
      Http(200, TRUE, 1, FALSE, ProviderErrorText) }  \* candidate without content
Responses == {GeneratorSuccess} \cup GeneratorFailures

\* generate_response as it would be if a non-success status passed the
\* provider's body on
generate_response_LeaksErrorBody(resp) ==
    IF resp.kind = "exc" THEN FallbackAnswer
    ELSE IF resp.status_code = 200 /\ resp.json_ok /\ resp.candidates > 0 /\ resp.wellformed
         THEN resp.text
         ELSE IF resp.status_code = 200 THEN FallbackAnswer ELSE resp.text

\* rag_engine.py:245-259: the answer generate_response returns for a response
generate_response(resp) ==
    IF resp.kind = "exc" THEN FallbackAnswer
    ELSE IF resp.status_code = 200
         THEN IF ~resp.json_ok THEN FallbackAnswer
              ELSE IF resp.candidates > 0
                   THEN IF resp.wellformed THEN resp.text ELSE FallbackAnswer
                   ELSE FallbackAnswer
         ELSE FallbackAnswer

\* --------------------------------------------------------- the state
Queries == {<<"cat">>, <<"dog">>, <<"the">>}

VARIABLES
    up,            \* the process runs and its RAGEngine was constructed
    fresh,         \* the engine has started no call since it was constructed
    dirExists,     \* the PDF directory exists
    dirFiles,      \* the files in it
    metadata,      \* self.metadata
    vectors,       \* self.vectors
    vectorizer,    \* self.vectorizer
    indexFile,     \* vectors.pkl
    metadataFile,  \* metadata.pkl
    pc,            \* where each caller's call stands
    loc,           \* the local variables of each caller's call
    gen,           \* the generator's response to each caller's POST
    result         \* what each caller's last call returned or raised

vars == <<up, fresh, dirExists, dirFiles, metadata, vectors, vectorizer, indexFile,
          metadataFile, pc, loc, gen, result>>
index == <<metadata, vectors, vectorizer>>
disk == <<indexFile, metadataFile>>
dir == <<dirExists, dirFiles>>

AbsentIndexFile == [state |-> "absent", vectors |-> NoVectors, vectorizer |-> UnfittedVectorizer]
AbsentMetadataFile == [state |-> "absent", metadata |-> <<>>]

NoLoc == [op |-> "", query |-> <<>>, files |-> <<>>, all_chunks |-> <<>>, total_chunks |-> 0,
          context |-> <<>>, pre |-> <<<<>>, NoVectors, UnfittedVectorizer>>,
          text |-> <<>>, chunk_size |-> 0, overlap |-> 0, top_k |-> 0]
NoResult == [kind |-> "none", op |-> "", status |-> "", count |-> 0, answer |-> "",
             context |-> <<>>, keys |-> {}, sources |-> <<>>, num_sources |-> 0,
             chunks |-> <<>>, twiml |-> <<>>]
Returned(op) == [NoResult EXCEPT !.kind = "returned", !.op = op]
Raised(op, exc) == [NoResult EXCEPT !.kind = "raised", !.op = op, !.status = exc]

\* rag_engine.py:86, 94, 129-133
IngestResult(status, count) == [Returned("ingest") EXCEPT !.status = status, !.count = count]
\* rag_engine.py:139, 159, 179, 182
RetrieveResult(context) == [Returned("retrieve") EXCEPT !.context = context]
\* rag_engine.py:267-271
NoContextResult ==
    [Returned("query") EXCEPT !.answer = NoInfoAnswer, !.keys = {"answer", "context", "sources"}]
\* rag_engine.py:276-280
AnswerResult(answer, context) ==
    [Returned("query") EXCEPT !.answer = answer, !.context = context,
                              !.keys = {"answer", "context", "num_sources"},
                              !.num_sources = Len(context)]

Idle(t) == pc[t] = "idle"
AllIdle == \A t \in Callers : Idle(t)

Init ==
    /\ up = TRUE
    /\ fresh = TRUE
    /\ dirExists = FALSE
    /\ dirFiles = {}
    /\ metadata = <<>>
    /\ vectors = NoVectors
    /\ vectorizer = UnfittedVectorizer
    /\ indexFile = AbsentIndexFile
    /\ metadataFile = AbsentMetadataFile
    /\ pc = [t \in Callers |-> "idle"]
    /\ loc = [t \in Callers |-> NoLoc]
    /\ gen = [t \in Callers |-> NoRequest]
    /\ result = [t \in Callers |-> NoResult]

\* A call of op starts: the caller's previous result and request are gone.
Begin(t, op, next) ==
    /\ pc' = [pc EXCEPT ![t] = next]
    /\ loc' = [loc EXCEPT ![t] = [NoLoc EXCEPT !.op = op, !.pre = index]]
    /\ gen' = [gen EXCEPT ![t] = NoRequest]
    /\ result' = [result EXCEPT ![t] = NoResult]

\* The call returns r (or raises, r.kind = "raised") to its caller.
Finish(t, r) ==
    /\ pc' = [pc EXCEPT ![t] = "idle"]
    /\ loc' = [loc EXCEPT ![t] = NoLoc]
    /\ result' = [result EXCEPT ![t] = r]

Goto(t, next) == pc' = [pc EXCEPT ![t] = next]

\* ---------------------------------------------------- clear_index
\* rag_engine.py:75-76, the first statements of clear_index
ClearStart(t) ==
    /\ up /\ Idle(t)
    /\ metadata' = <<>>
    /\ vectors' = NoVectors
    /\ Begin(t, "clear", "clear_rm_index")
    /\ fresh' = FALSE
    /\ UNCHANGED <<up, dir, vectorizer, disk>>

\* clear_index as it would be without lines 77-78: vectors.pkl stays
ClearRemoveIndex_KeepsFile(t) ==
    /\ pc[t] = "clear_rm_index"
    /\ Goto(t, "clear_rm_metadata")
    /\ UNCHANGED <<up, fresh, dir, index, disk, loc, gen, result>>

\* rag_engine.py:77-78
ClearRemoveIndex(t) ==
    /\ pc[t] = "clear_rm_index"
    /\ indexFile' = AbsentIndexFile
    /\ Goto(t, "clear_rm_metadata")
    /\ UNCHANGED <<up, fresh, dir, index, metadataFile, loc, gen, result>>

\* clear_index as it would be without lines 79-80: metadata.pkl stays
ClearRemoveMetadata_KeepsFile(t) ==
    /\ pc[t] = "clear_rm_metadata"
    /\ IF loc[t].op = "clear"
       THEN Finish(t, Returned("clear"))
       ELSE Goto(t, "ingest_list") /\ UNCHANGED <<loc, result>>
    /\ UNCHANGED <<up, fresh, dir, index, disk, gen>>

\* rag_engine.py:79-80; clear_index returns, to its caller or into
\* ingest_pdfs (line 89)
ClearRemoveMetadata(t) ==
    /\ pc[t] = "clear_rm_metadata"
    /\ metadataFile' = AbsentMetadataFile
    /\ IF loc[t].op = "clear"
       THEN Finish(t, Returned("clear"))
       ELSE Goto(t, "ingest_list") /\ UNCHANGED <<loc, result>>
    /\ UNCHANGED <<up, fresh, dir, index, indexFile, gen>>

\* ----------------------------------------------------- ingest_pdfs
\* ingest_pdfs as it would be without line 85: the missing directory is
\* reported and not created
IngestStart_NoMakedirs(t) ==
    /\ up /\ Idle(t)
    /\ IF ~dirExists
       THEN /\ pc' = pc
            /\ loc' = loc
            /\ gen' = [gen EXCEPT ![t] = NoRequest]
            /\ result' = [result EXCEPT ![t] = IngestResult("error", 0)]
            /\ UNCHANGED <<metadata, vectors>>
       ELSE /\ metadata' = <<>>
            /\ vectors' = NoVectors
            /\ Begin(t, "ingest", "clear_rm_index")
    /\ fresh' = FALSE
    /\ UNCHANGED <<up, dir, vectorizer, disk>>

\* ingest_pdfs, were the reset of line 89 placed before the directory test
IngestStart_ResetFirst(t) ==
    /\ up /\ Idle(t)
    /\ metadata' = <<>>
    /\ vectors' = NoVectors
    /\ IF ~dirExists
       THEN /\ dirExists' = TRUE
            /\ pc' = pc
            /\ loc' = loc
            /\ gen' = [gen EXCEPT ![t] = NoRequest]
            /\ result' = [result EXCEPT ![t] = IngestResult("error", 0)]
       ELSE /\ Begin(t, "ingest", "clear_rm_index")
            /\ UNCHANGED dirExists
    /\ fresh' = FALSE
    /\ UNCHANGED <<up, dirFiles, vectorizer, disk>>

\* ingest_pdfs as it would be without the reset of line 89: it appends to
\* the index it finds
IngestStart_NoReset(t) ==
    /\ up /\ Idle(t)
    /\ IF ~dirExists
       THEN /\ dirExists' = TRUE
            /\ pc' = pc
            /\ loc' = loc
            /\ gen' = [gen EXCEPT ![t] = NoRequest]
            /\ result' = [result EXCEPT ![t] = IngestResult("error", 0)]
       ELSE /\ Begin(t, "ingest", "ingest_list")
            /\ UNCHANGED dirExists
    /\ fresh' = FALSE
    /\ UNCHANGED <<up, dirFiles, index, disk>>

\* rag_engine.py:84-89: a missing directory is created and the call
\* returns; otherwise clear_index starts (lines 75-76)
IngestStart(t) ==
    /\ up /\ Idle(t)
    /\ IF ~dirExists
       THEN /\ dirExists' = TRUE
            /\ pc' = pc
            /\ loc' = loc
            /\ gen' = [gen EXCEPT ![t] = NoRequest]
            /\ result' = [result EXCEPT ![t] = IngestResult("error", 0)]
            /\ UNCHANGED <<metadata, vectors>>
       ELSE /\ metadata' = <<>>
            /\ vectors' = NoVectors
            /\ Begin(t, "ingest", "clear_rm_index")
            /\ UNCHANGED dirExists
    /\ fresh' = FALSE
    /\ UNCHANGED <<up, dirFiles, vectorizer, disk>>

\* ingest_pdfs as it would be without the test of lines 93-94: with no
\* PDF file the loop runs over nothing and the call returns success
IngestList_NoEmptyTest(t) ==
    /\ pc[t] = "ingest_list"
    /\ Goto(t, IF pdf_files(dirFiles) = <<>> THEN "ingest_fit" ELSE "ingest_doc")
    /\ loc' = [loc EXCEPT ![t].files = pdf_files(dirFiles)]
    /\ UNCHANGED <<up, fresh, dir, index, disk, gen, result>>

\* rag_engine.py:91-97
IngestList(t) ==
    /\ pc[t] = "ingest_list"
    /\ IF pdf_files(dirFiles) = <<>>
       THEN Finish(t, IngestResult("warning", 0))
       ELSE /\ Goto(t, "ingest_doc")
            /\ loc' = [loc EXCEPT ![t].files = pdf_files(dirFiles)]
            /\ UNCHANGED result
    /\ UNCHANGED <<up, fresh, dir, index, disk, gen>>

\* IngestDoc, were a document that cannot be read to end the call
IngestDoc_AbortsOnFailure(t) ==
    /\ pc[t] = "ingest_doc"
    /\ IF extract_text_from_pdf(Head(loc[t].files)) = <<>>
       THEN /\ Finish(t, Raised("ingest", "PdfReadError"))
            /\ UNCHANGED metadata
       ELSE LET entries == DocEntries(Head(loc[t].files))
                rest == Tail(loc[t].files)
            IN /\ metadata' = metadata \o entries
               /\ loc' = [loc EXCEPT ![t].files = rest,
                                     ![t].all_chunks = @ \o [k \in 1..Len(entries) |-> entries[k].text],
                                     ![t].total_chunks = @ + Len(entries)]
               /\ Goto(t, IF rest = <<>> THEN "ingest_fit" ELSE "ingest_doc")
               /\ UNCHANGED result
    /\ UNCHANGED <<up, fresh, dir, vectors, vectorizer, disk, gen>>

\* rag_engine.py:99-121: one round of the loop over pdf_files
IngestDoc(t) ==
    /\ pc[t] = "ingest_doc"
    /\ LET entries == DocEntries(Head(loc[t].files))
           rest == Tail(loc[t].files)
       IN /\ metadata' = metadata \o entries
          /\ loc' = [loc EXCEPT ![t].files = rest,
                                ![t].all_chunks = @ \o [k \in 1..Len(entries) |-> entries[k].text],
                                ![t].total_chunks = @ + Len(entries)]
          /\ Goto(t, IF rest = <<>> THEN "ingest_fit" ELSE "ingest_doc")
    /\ UNCHANGED <<up, fresh, dir, vectors, vectorizer, disk, gen, result>>

\* rag_engine.py:129-133
IngestSuccess(t) == IngestResult("success", loc[t].total_chunks)

\* IngestFit, were the matrix built by a vectorizer other than the engine's
IngestFit_KeepsVectorizer(t) ==
    /\ pc[t] = "ingest_fit"
    /\ IF loc[t].all_chunks = <<>>
       THEN Finish(t, IngestSuccess(t)) /\ UNCHANGED <<vectors, vectorizer>>
       ELSE IF FitRaises(loc[t].all_chunks)
       THEN Finish(t, Raised("ingest", "ValueError")) /\ UNCHANGED <<vectors, vectorizer>>
       ELSE /\ vectors' = FitTransform(loc[t].all_chunks)
            /\ UNCHANGED vectorizer
            /\ Goto(t, "save_open_index")
            /\ UNCHANGED <<loc, result>>
    /\ UNCHANGED <<up, fresh, dir, metadata, disk, gen>>

\* rag_engine.py:124-126; with no chunk the call returns (lines 129-133)
IngestFit(t) ==
    /\ pc[t] = "ingest_fit"
    /\ IF loc[t].all_chunks = <<>>
       THEN Finish(t, IngestSuccess(t)) /\ UNCHANGED <<vectors, vectorizer>>
       ELSE IF FitRaises(loc[t].all_chunks)
       THEN Finish(t, Raised("ingest", "ValueError")) /\ UNCHANGED <<vectors, vectorizer>>
       ELSE /\ vectors' = FitTransform(loc[t].all_chunks)
            /\ vectorizer' = Fit(loc[t].all_chunks)
            /\ Goto(t, "save_open_index")
            /\ UNCHANGED <<loc, result>>
    /\ UNCHANGED <<up, fresh, dir, metadata, disk, gen>>

\* ------------------------------------------------------ save_index
\* A file opened with 'wb' exists and is empty until the dump has been
\* written: "torn".  Each step of save_index can fail with OSError.
IndexFileOf(vecs, vz) == [state |-> "full", vectors |-> vecs, vectorizer |-> vz]
MetadataFileOf(md) == [state |-> "full", metadata |-> md]

\* rag_engine.py:65
SaveOpenIndex(t) ==
    /\ pc[t] = "save_open_index"
    /\ \/ /\ indexFile' = [AbsentIndexFile EXCEPT !.state = "torn"]
          /\ Goto(t, "save_dump_index")
          /\ UNCHANGED <<loc, result>>
       \/ Finish(t, Raised("ingest", "OSError")) /\ UNCHANGED indexFile
    /\ UNCHANGED <<up, fresh, dir, index, metadataFile, gen>>

\* rag_engine.py:66-69
SaveDumpIndex(t) ==
    /\ pc[t] = "save_dump_index"
    /\ \/ /\ indexFile' = IndexFileOf(vectors, vectorizer)
          /\ Goto(t, "save_open_metadata")
          /\ UNCHANGED <<loc, result>>
       \/ Finish(t, Raised("ingest", "OSError")) /\ UNCHANGED indexFile
    /\ UNCHANGED <<up, fresh, dir, index, metadataFile, gen>>

\* rag_engine.py:70
SaveOpenMetadata(t) ==
    /\ pc[t] = "save_open_metadata"
    /\ \/ /\ metadataFile' = [AbsentMetadataFile EXCEPT !.state = "torn"]
          /\ Goto(t, "save_dump_metadata")
          /\ UNCHANGED <<loc, result>>
       \/ Finish(t, Raised("ingest", "OSError")) /\ UNCHANGED metadataFile
    /\ UNCHANGED <<up, fresh, dir, index, indexFile, gen>>

\* rag_engine.py:71, then ingest_pdfs returns (lines 129-133)
SaveDumpMetadata(t) ==
    /\ pc[t] = "save_dump_metadata"
    /\ \/ /\ metadataFile' = MetadataFileOf(metadata)
          /\ Finish(t, IngestSuccess(t))
       \/ Finish(t, Raised("ingest", "OSError")) /\ UNCHANGED metadataFile
    /\ UNCHANGED <<up, fresh, dir, index, indexFile, gen>>

\* ---------------------------------------- retrieve_context and query
\* query as it would be without the test of line 266: the generator is
\* called whatever the context
Retrieved_AlwaysGenerates(t, op, q, context) ==
    IF op = "retrieve" THEN Finish(t, RetrieveResult(context))
    ELSE /\ Goto(t, "generate_post")
         /\ loc' = [loc EXCEPT ![t] = [NoLoc EXCEPT !.op = op, !.query = q, !.context = context]]
         /\ UNCHANGED result

\* What the call makes of the retrieved context: retrieve_context returns
\* it; query (rag_engine.py:264-274) returns the no-information answer for
\* an empty one and goes on to generate_response otherwise.
Retrieved(t, op, q, context) ==
    IF op = "retrieve" THEN Finish(t, RetrieveResult(context))
    ELSE IF context = <<>> THEN Finish(t, NoContextResult)
    ELSE /\ Goto(t, "generate_post")
         /\ loc' = [loc EXCEPT ![t] = [NoLoc EXCEPT !.op = op, !.query = q, !.context = context]]
         /\ UNCHANGED result

\* rag_engine.py:137-139: the emptiness test retrieve_context starts with
RetrieveStart(t, op, q) ==
    /\ up /\ Idle(t)
    /\ gen' = [gen EXCEPT ![t] = NoRequest]
    /\ IF vectors.none \/ Len(metadata) = 0
       THEN /\ pc' = pc
            /\ loc' = loc
            /\ result' = [result EXCEPT ![t] =
                             IF op = "retrieve" THEN RetrieveResult(<<>>) ELSE NoContextResult]
       ELSE /\ pc' = [pc EXCEPT ![t] = "retrieve_compute"]
            /\ loc' = [loc EXCEPT ![t] = [NoLoc EXCEPT !.op = op, !.query = q]]
            /\ result' = [result EXCEPT ![t] = NoResult]
    /\ fresh' = FALSE
    /\ UNCHANGED <<up, dir, index, disk>>

\* retrieve_context, were the query vectorized with fit_transform: the
\* engine's vectorizer is refitted on the query
RetrieveCompute_Refits(t) ==
    /\ pc[t] = "retrieve_compute"
    /\ Retrieved(t, loc[t].op, loc[t].query,
                 retrieve_context(loc[t].query, TopK, metadata, vectors, vectorizer))
    /\ vectorizer' = Fit(<<loc[t].query>>)
    /\ UNCHANGED <<up, fresh, dir, metadata, vectors, disk, gen>>

\* rag_engine.py:142-182
RetrieveCompute(t) ==
    /\ pc[t] = "retrieve_compute"
    /\ Retrieved(t, loc[t].op, loc[t].query,
                 retrieve_context(loc[t].query, TopK, metadata, vectors, vectorizer))
    /\ UNCHANGED <<up, fresh, dir, index, disk, gen>>

\* rag_engine.py:231-243: the POST is sent; the environment decides what
\* comes back
GeneratePost(t) ==
    /\ pc[t] = "generate_post"
    /\ \E r \in Responses \cup {Hang} : gen' = [gen EXCEPT ![t] = r]
    /\ Goto(t, "generate_wait")
    /\ UNCHANGED <<up, fresh, dir, index, disk, loc, result>>

\* rag_engine.py:245-259 and 276-280: requests.post returns or raises
GenerateReturn(t) ==
    /\ pc[t] = "generate_wait"
    /\ gen[t].kind # "hang"
    /\ Finish(t, AnswerResult(generate_response(gen[t]), loc[t].context))
    /\ UNCHANGED <<up, fresh, dir, index, disk, gen>>

\* ---------------------------------------------------- environment
\* The operator puts a file into the PDF directory or takes one out,
\* between calls.
PutFile(f) ==
    /\ AllIdle
    /\ f \notin dirFiles
    /\ dirExists' = TRUE
    /\ dirFiles' = dirFiles \cup {f}
    /\ UNCHANGED <<up, fresh, index, disk, pc, loc, gen, result>>

RemoveFile(f) ==
    /\ AllIdle
    /\ f \in dirFiles
    /\ dirFiles' = dirFiles \ {f}
    /\ UNCHANGED <<up, fresh, dirExists, index, disk, pc, loc, gen, result>>

\* The operator removes the PDF directory with what it holds, between calls.
RemoveDir ==
    /\ AllIdle
    /\ dirExists
    /\ dirExists' = FALSE
    /\ dirFiles' = {}
    /\ UNCHANGED <<up, fresh, index, disk, pc, loc, gen, result>>

\* rag_engine.py:24-34: what __init__ loads from the index files.  A torn
\* vectors.pkl, or a missing or torn metadata.pkl beside vectors.pkl, makes
\* pickle.load or open raise: no engine is constructed.
LoadFails ==
    /\ indexFile.state # "absent"
    /\ indexFile.state = "torn" \/ metadataFile.state # "full"
LoadedVectors == IF indexFile.state = "full" THEN indexFile.vectors ELSE NoVectors
\* __init__ as it would be without line 28: the engine keeps the unfitted
\* vectorizer of line 18
LoadedVectorizer_Unfitted == UnfittedVectorizer
LoadedVectorizer == IF indexFile.state = "full" THEN indexFile.vectorizer ELSE UnfittedVectorizer
LoadedMetadata == IF indexFile.state = "full" THEN metadataFile.metadata ELSE <<>>

\* The process stops, wherever its calls stand, and is started again:
\* main.py:40 constructs a new RAGEngine on the same index_path.  A call
\* that was in flight returns nothing to its caller.
Restart ==
    /\ up' = ~LoadFails
    /\ fresh' = TRUE
    /\ metadata' = IF LoadFails THEN <<>> ELSE LoadedMetadata
    /\ vectors' = IF LoadFails THEN NoVectors ELSE LoadedVectors
    /\ vectorizer' = IF LoadFails THEN UnfittedVectorizer ELSE LoadedVectorizer
    /\ pc' = [t \in Callers |-> "idle"]
    /\ loc' = [t \in Callers |-> NoLoc]
    /\ gen' = [t \in Callers |-> NoRequest]
    /\ result' = [t \in Callers |-> IF Idle(t) THEN result[t] ELSE NoResult]
    /\ UNCHANGED <<dir, disk>>

\* ------------------------------------------------ chunk_text alone
\* A text of n distinct tokens; the paged one has a newline after every
\* second token and at its end, as extract_text_from_pdf lays pages out
\* (one empty page for n = 0).
WordNames == <<"w1", "w2", "w3", "w4", "w5", "w6", "w7", "w8", "w9", "w10">>
Word(i) == WordNames[i]
PlainText(n) == [i \in 1..n |-> Word(i)]
PagedText(n) ==
    IF n = 0 THEN <<NL>>
    ELSE Flatten([i \in 1..n |-> IF i % 2 = 0 \/ i = n THEN <<Word(i), NL>> ELSE <<Word(i)>>])
Texts == {PlainText(n) : n \in 0..MaxTokens} \cup {PagedText(n) : n \in 0..MaxTokens}

ChunkResult(chunks) == [Returned("chunk_text") EXCEPT !.chunks = chunks]

\* A call chunk_text(text, chunk_size, overlap) is about to run.
InitChunk ==
    /\ up = TRUE
    /\ fresh = TRUE
    /\ dirExists = FALSE
    /\ dirFiles = {}
    /\ metadata = <<>>
    /\ vectors = NoVectors
    /\ vectorizer = UnfittedVectorizer
    /\ indexFile = AbsentIndexFile
    /\ metadataFile = AbsentMetadataFile
    /\ \E text \in Texts, chunk_size \in 0..MaxChunk, overlap \in 0..MaxChunk :
          loc = [t \in Callers |->
                   IF t = 1 THEN [NoLoc EXCEPT !.op = "chunk_text", !.text = text,
                                               !.chunk_size = chunk_size, !.overlap = overlap]
                   ELSE NoLoc]
    /\ pc = [t \in Callers |-> IF t = 1 THEN "chunk_text" ELSE "idle"]
    /\ gen = [t \in Callers |-> NoRequest]
    /\ result = [t \in Callers |-> NoResult]

\* rag_engine.py:51-61: the call runs and returns its chunks or raises
ChunkText(t) ==
    /\ pc[t] = "chunk_text"
    /\ pc' = [pc EXCEPT ![t] = "idle"]
    /\ result' = [result EXCEPT ![t] =
                     IF chunk_text_raises(loc[t].chunk_size, loc[t].overlap)
                     THEN Raised("chunk_text", "ValueError")
                     ELSE ChunkResult(chunk_text(loc[t].text, loc[t].chunk_size, loc[t].overlap))]
    /\ UNCHANGED <<up, fresh, dir, index, disk, loc, gen>>

NextChunk == ChunkText(1)
SpecChunk == InitChunk /\ [][NextChunk]_vars

\* ------------------------------------------- retrieve_context alone
\* The chunks an index can be built of: each is the one chunk of a small
\* document.  "cat" and "cat cat" have TF-IDF rows of the same direction.
ChunkChoices == {<<"cat">>, <<"cat", "cat">>, <<"dog">>, <<"cat", "dog">>, <<"the">>}
RECURSIVE SeqsUpTo(_, _)
SeqsUpTo(S, n) ==
    IF n = 0 THEN {<<>>}
    ELSE LET shorter == SeqsUpTo(S, n - 1)
         IN shorter \cup {Append(c, x) : c \in {d \in shorter : Len(d) = n - 1}, x \in S}
\* The chunk lists ingest_pdfs can index: fit_transform raises on the others.
IndexableChunks == {cs \in SeqsUpTo(ChunkChoices, MaxRows) : cs = <<>> \/ ~FitRaises(cs)}
RetrieveQueries == Queries \cup {<<"cat", "dog">>}

\* The engine after ingest_pdfs indexed documents 1..n, document k holding
\* the one chunk chunks[k]; a call retrieve_context(query, top_k) is about
\* to run.
InitRetrieve ==
    /\ up = TRUE
    /\ fresh = FALSE
    /\ dirExists = TRUE
    /\ dirFiles = {}
    /\ \E chunks \in IndexableChunks :
          /\ metadata = [k \in 1..Len(chunks) |-> [text |-> chunks[k], source |-> k, chunk_id |-> 0]]
          /\ vectors = IF chunks = <<>> THEN NoVectors ELSE FitTransform(chunks)
          /\ vectorizer = IF chunks = <<>> THEN UnfittedVectorizer ELSE Fit(chunks)
    /\ indexFile = IF metadata = <<>> THEN AbsentIndexFile ELSE IndexFileOf(vectors, vectorizer)
    /\ metadataFile = IF metadata = <<>> THEN AbsentMetadataFile ELSE MetadataFileOf(metadata)
    /\ \E query \in RetrieveQueries, top_k \in 1..MaxTopK :
          loc = [t \in Callers |->
                   IF t = 1 THEN [NoLoc EXCEPT !.op = "retrieve_context", !.query = query,
                                               !.top_k = top_k]
                   ELSE NoLoc]
    /\ pc = [t \in Callers |-> IF t = 1 THEN "retrieve_context" ELSE "idle"]
    /\ gen = [t \in Callers |-> NoRequest]
    /\ result = [t \in Callers |-> NoResult]

\* rag_engine.py:135-182: the call runs and returns its chunks
RetrieveCall(t) ==
    /\ pc[t] = "retrieve_context"
    /\ pc' = [pc EXCEPT ![t] = "idle"]
    /\ result' = [result EXCEPT ![t] =
                     RetrieveResult(retrieve_context(loc[t].query, loc[t].top_k,
                                                     metadata, vectors, vectorizer))]
    /\ UNCHANGED <<up, fresh, dir, index, disk, loc, gen>>

NextRetrieve == RetrieveCall(1)
SpecRetrieve == InitRetrieve /\ [][NextRetrieve]_vars

\* --------------------------------------------------- HTTP front-end
\* main.py:56-59: the fields QueryResponse requires
QueryResponseFields == {"answer", "context", "num_sources"}

HttpOk(answer) == [status_code |-> 200, answer |-> answer]
HttpError(code) == [status_code |-> code, answer |-> ""]

\* main.py:127-140: the response of POST /query to a question for which
\* rag_engine.query gave r.  A question of white space only is refused;
\* QueryResponse(**r) raises a validation error when r lacks a required
\* field, and every exception becomes status 500.
query_knowledge(question, r) ==
    IF split(question) = <<>> THEN HttpError(400)
    ELSE IF r.kind # "returned" THEN HttpError(500)
    ELSE IF QueryResponseFields \subseteq r.keys THEN HttpOk(r.answer)
    ELSE HttpError(500)

\* rag_engine.py:14-37: the attributes __init__ sets on a RAGEngine; the
\* class defines no other data attribute
EngineAttributes ==
    {"index_path", "vectorizer", "index_file", "metadata_file", "vectors", "metadata",
     "gemini_api_key", "gemini_url"}

StatsResponse(code, keys, chunks, docs) ==
    [status_code |-> code, keys |-> keys, chunks |-> chunks, documents |-> docs]

\* main.py:142-152: the response of GET /stats.  rag_engine.collection is
\* read first; a missing attribute raises AttributeError, and every
\* exception becomes status 500.
get_stats(md) ==
    IF "collection" \in EngineAttributes
    THEN StatsResponse(200, {"total_chunks", "collection_name"}, Len(md), {})
    ELSE StatsResponse(500, {"detail"}, 0, {})

\* main.py:96-107: the response of GET /debug/index
debug_index(md) ==
    IF md = <<>> THEN StatsResponse(200, {"count", "documents"}, 0, {})
    ELSE StatsResponse(200, {"count", "num_documents", "documents"}, Len(md),
                       {md[i].source : i \in 1..Len(md)})

\* ------------------------------------------------------ voice calls
\* A speech transcription is a sequence of characters.  str.lower() maps
\* each upper-case letter to its lower-case one.
lower(speech) ==
    [i \in 1..Len(speech) |->
        CASE speech[i] = "Y" -> "y"
          [] speech[i] = "E" -> "e"
          [] speech[i] = "S" -> "s"
          [] OTHER -> speech[i]]
\* Python's  word in text  on strings: word is a substring of text
Contains(text, word) ==
    \E i \in 0..(Len(text) - Len(word)) : SubSeq(text, i + 1, i + Len(word)) = word
\* twilio_handler.py:104: 'yes', 'yeah', 'sure', 'yep'
AffirmativeWords ==
    {<<"y", "e", "s">>, <<"y", "e", "a", "h">>, <<"s", "u", "r", "e">>, <<"y", "e", "p">>}

\* The verbs of a VoiceResponse, in document order
Say(text) == [verb |-> "Say", arg |-> text]
Gather(action) == [verb |-> "Gather", arg |-> action]
Redirect(url) == [verb |-> "Redirect", arg |-> url]
Hangup == [verb |-> "Hangup", arg |-> ""]

\* twilio_handler.py:12-43
handle_incoming_call ==
    <<Say("Hello! I'm your AI knowledge assistant."), Gather("/voice/gather"),
      Say("I didn't hear anything. Please try calling again. Goodbye!"), Hangup>>

\* twilio_handler.py:45-95, r being what rag_engine.query gives for the
\* speech: its result, or an exception (r.kind = "raised")
handle_speech_input(speech, r) ==
    IF speech = <<>>
    THEN <<Say("I didn't catch that. Please try again."), Redirect("/voice/incoming")>>
    ELSE IF r.kind # "returned"
    THEN <<Say("I'm sorry, I encountered an error processing your request."), Hangup>>
    ELSE <<Say(r.answer), Gather("/voice/continue"), Say("Thank you for calling. Goodbye!"),
           Hangup>>

\* handle_continue as it would be without .lower() in line 104
handle_continue_CaseSensitive(speech) ==
    IF speech # <<>> /\ \E word \in AffirmativeWords : Contains(speech, word)
    THEN <<Gather("/voice/gather"), Say("I didn't hear anything. Goodbye!"), Hangup>>
    ELSE <<Say("Thank you for calling. Have a great day!"), Hangup>>

\* twilio_handler.py:97-128
handle_continue(speech) ==
    IF speech # <<>> /\ \E word \in AffirmativeWords : Contains(lower(speech), word)
    THEN <<Gather("/voice/gather"), Say("I didn't hear anything. Goodbye!"), Hangup>>
    ELSE <<Say("Thank you for calling. Have a great day!"), Hangup>>

\* What a caller can be heard to say: every string of up to MaxSpeech of
\* the letters, and some phrases
SpeechLetters == {"y", "e", "s", "Y", "n"}
SpokenPhrases ==
    {<<"y", "e", "a", "h">>, <<"s", "u", "r", "e">>, <<"Y", "E", "S">>, <<"n", "o">>,
     <<"n", "o", "t", " ", "s", "u", "r", "e">>, <<"e", "y", "e", "s">>,
     <<"y", "e", "s", " ", "c", "a", "t">>, <<" ">>}
Speeches == SeqsUpTo(SpeechLetters, MaxSpeech) \cup SpokenPhrases

\* What rag_engine.query gives handle_speech_input: one of its answers with
\* or without context, or an exception
QueryOutcomes ==
    {NoContextResult, Raised("query", "Exception")}
    \cup {AnswerResult(a, <<<<"cat">>>>) : a \in {GeneratedText, FallbackAnswer}}

VoiceResult(op, twiml, answer) ==
    [Returned(op) EXCEPT !.twiml = twiml, !.answer = answer]
\* main.py:154-179: the request path of each voice route
Route(url) ==
    CASE url = "/voice/incoming" -> "voice_incoming"
      [] url = "/voice/gather" -> "voice_gather"
      [] url = "/voice/continue" -> "voice_continue"

\* A call comes in: Twilio requests /voice/incoming.
InitVoice ==
    /\ up = TRUE
    /\ fresh = TRUE
    /\ dirExists = FALSE
    /\ dirFiles = {}
    /\ metadata = <<>>
    /\ vectors = NoVectors
    /\ vectorizer = UnfittedVectorizer
    /\ indexFile = AbsentIndexFile
    /\ metadataFile = AbsentMetadataFile
    /\ pc = [t \in Callers |-> IF t = 1 THEN "voice_incoming" ELSE "idle"]
    /\ loc = [t \in Callers |-> IF t = 1 THEN [NoLoc EXCEPT !.op = "voice"] ELSE NoLoc]
    /\ gen = [t \in Callers |-> NoRequest]
    /\ result = [t \in Callers |-> NoResult]

\* The handler's document goes back to Twilio, which executes its verbs.
Respond(t, r) ==
    /\ pc' = [pc EXCEPT ![t] = "twiml"]
    /\ result' = [result EXCEPT ![t] = r]
    /\ UNCHANGED <<up, fresh, dir, index, disk, loc, gen>>
\* Twilio requests a route, with the speech it transcribed (none: empty).
Request(t, url, speech) ==
    /\ pc' = [pc EXCEPT ![t] = Route(url)]
    /\ loc' = [loc EXCEPT ![t].text = speech]
    /\ result' = [result EXCEPT ![t] = NoResult]
    /\ UNCHANGED <<up, fresh, dir, index, disk, gen>>

\* main.py:154-161
VoiceIncoming(t) ==
    /\ pc[t] = "voice_incoming"
    /\ Respond(t, VoiceResult("handle_incoming_call", handle_incoming_call, ""))

\* main.py:163-170: SpeechResult or ""
VoiceGather(t) ==
    /\ pc[t] = "voice_gather"
    /\ \E r \in QueryOutcomes :
          Respond(t, VoiceResult("handle_speech_input", handle_speech_input(loc[t].text, r),
                                 IF loc[t].text = <<>> THEN "" ELSE r.answer))

\* main.py:172-179
VoiceContinue(t) ==
    /\ pc[t] = "voice_continue"
    /\ Respond(t, VoiceResult("handle_continue", handle_continue(loc[t].text), ""))

\* Twilio executes the first verb left of the document.
Executing(t, verb) ==
    /\ pc[t] = "twiml"
    /\ result[t].twiml # <<>>
    /\ Head(result[t].twiml).verb = verb
NextVerb(t) ==
    /\ result' = [result EXCEPT ![t].twiml = Tail(@)]
    /\ UNCHANGED <<up, fresh, dir, index, disk, pc, loc, gen>>

TwilioSay(t) == Executing(t, "Say") /\ NextVerb(t)
\* the caller is heard and the transcription is posted to the action URL
TwilioGatherSpeech(t) ==
    /\ Executing(t, "Gather")
    /\ \E speech \in Speeches : Request(t, Head(result[t].twiml).arg, speech)
\* the caller stays silent: the document goes on after the Gather
TwilioGatherSilence(t) == Executing(t, "Gather") /\ NextVerb(t)
TwilioRedirect(t) ==
    /\ Executing(t, "Redirect")
    /\ Request(t, Head(result[t].twiml).arg, <<>>)
TwilioHangup(t) ==
    /\ Executing(t, "Hangup")
    /\ pc' = [pc EXCEPT ![t] = "hungup"]
    /\ result' = [result EXCEPT ![t] = NoResult]
    /\ UNCHANGED <<up, fresh, dir, index, disk, loc, gen>>
\* the next call comes in
NewCall(t) ==
    /\ pc[t] = "hungup"
    /\ Request(t, "/voice/incoming", <<>>)

NextVoice ==
    \/ VoiceIncoming(1)
    \/ VoiceGather(1)
    \/ VoiceContinue(1)
    \/ TwilioSay(1)
    \/ TwilioGatherSpeech(1)
    \/ TwilioGatherSilence(1)
    \/ TwilioRedirect(1)
    \/ TwilioHangup(1)
    \/ NewCall(1)
SpecVoice == InitVoice /\ [][NextVoice]_vars

\* --------------------------------------------------- specifications
Step(t) ==
    \/ ClearStart(t)
    \/ ClearRemoveIndex(t)
    \/ ClearRemoveMetadata(t)
    \/ IngestStart(t)
    \/ IngestList(t)
    \/ IngestDoc(t)
    \/ IngestFit(t)
    \/ SaveOpenIndex(t)
    \/ SaveDumpIndex(t)
    \/ SaveOpenMetadata(t)
    \/ SaveDumpMetadata(t)
    \/ \E q \in Queries : RetrieveStart(t, "retrieve", q) \/ RetrieveStart(t, "query", q)
    \/ RetrieveCompute(t)
    \/ GeneratePost(t)
    \/ GenerateReturn(t)

Environment ==
    \/ \E f \in Files : PutFile(f) \/ RemoveFile(f)
    \/ RemoveDir
    \/ Restart

\* main.py's handlers are coroutines that never await while they use the
\* engine, so the event loop runs one call at a time: caller 1.
Next == Step(1) \/ Environment
Spec == Init /\ [][Next]_vars

\* The engine used from several threads at once (spec section 5): ingest_pdfs
\* and retrieve_context calls of all callers interleave, over a directory
\* that receives files 1 and 5.
StepConc(t) ==
    \/ IngestStart(t)
    \/ ClearRemoveIndex(t)
    \/ ClearRemoveMetadata(t)
    \/ IngestList(t)
    \/ IngestDoc(t)
    \/ IngestFit(t)
    \/ SaveOpenIndex(t)
    \/ SaveDumpIndex(t)
    \/ SaveOpenMetadata(t)
    \/ SaveDumpMetadata(t)
    \/ \E q \in Queries : RetrieveStart(t, "retrieve", q)
    \/ RetrieveCompute(t)

NextConc == (\E t \in Callers : StepConc(t)) \/ (\E f \in {1, 5} : PutFile(f))
SpecConc == Init /\ [][NextConc]_vars

\* A query that has started runs on until it returns or blocks: each of
\* its steps is taken if it stays possible.
FairSpec ==
    Spec /\ WF_vars(RetrieveCompute(1)) /\ WF_vars(GeneratePost(1)) /\ WF_vars(GenerateReturn(1))

\* ------------------------------------------------------------ claims
\* The index a full rebuild from the directory yields: the chunks of the
\* PDF files now in it, in listing order, and their TF-IDF matrix.
ChunkTexts(md) == [i \in 1..Len(md) |-> md[i].text]
DirMetadata(files) ==
    Flatten([k \in 1..Len(pdf_files(files)) |-> DocEntries(pdf_files(files)[k])])
DirVectors(files) ==
    IF FitRaises(ChunkTexts(DirMetadata(files))) THEN NoVectors
    ELSE FitTransform(ChunkTexts(DirMetadata(files)))
DirVectorizer(files) == Fit(ChunkTexts(DirMetadata(files)))

\* metadata, vectors and vectorizer belong to one build, or there is no index
OneBuild(md, vecs, vz) ==
    \/ md = <<>> /\ vecs = NoVectors
    \/ /\ ~FitRaises(ChunkTexts(md))
       /\ vecs = FitTransform(ChunkTexts(md))
       /\ vz = Fit(ChunkTexts(md))

IngestSucceeded(t) ==
    /\ result[t].kind = "returned" /\ result[t].op = "ingest" /\ result[t].status = "success"

\* C1: between calls, the chunk metadata list has as many entries as the
\* vector matrix has rows (an absent matrix has none), also after an
\* ingest_pdfs call that failed part-way.
C1_ChunksMatchVectorRows ==
    (up /\ AllIdle) => Len(metadata) = NumRows(vectors)

\* C2: a RAGEngine constructed after the process stopped, at whatever point
\* of persisting, is constructed, and holds either metadata, vectors and
\* vectorizer of one save or no index.
C2_ReloadSeesOneSaveOrNone ==
    [][Restart => (up' /\ OneBuild(metadata', vectors', vectorizer'))]_vars

\* C3: while ingest_pdfs has not yet vectorized its batch (it clears,
\* lists, extracts, chunks or vectorizes), a complete index in the index
\* files stays as it is.
CompleteOnDisk == indexFile.state = "full" /\ metadataFile.state = "full"
C3_FilesKeptUntilVectorized ==
    [][\A t \in Callers :
          (loc[t].op = "ingest" /\ CompleteOnDisk
           /\ pc[t] \in {"clear_rm_index", "clear_rm_metadata", "ingest_list", "ingest_doc", "ingest_fit"})
          => disk' = disk]_vars

\* C4: a retrieve_context call that returns while an ingest_pdfs call of
\* another caller is in flight returns what retrieval yields on the index
\* as it was when that ingest started, or on the index the ingest builds.
RetrieveReturns(r, q) ==
    /\ \/ RetrieveStart(r, "retrieve", q)
       \/ RetrieveCompute(r) /\ loc[r].op = "retrieve" /\ loc[r].query = q
    /\ Idle(r)'
C4_RetrieveSeesIndexBeforeOrAfter ==
    [][\A r \in Callers, w \in Callers, q \in Queries :
          (r # w /\ loc[w].op = "ingest" /\ ~Idle(w) /\ RetrieveReturns(r, q))
          => result'[r].context \in
                { retrieve_context(q, TopK, loc[w].pre[1], loc[w].pre[2], loc[w].pre[3]),
                  retrieve_context(q, TopK, DirMetadata(dirFiles), DirVectors(dirFiles),
                                   DirVectorizer(dirFiles)) }]_vars

\* C5: when an ingest_pdfs call returns success, no call is left in flight
\* and every caller's last call was a successful ingest_pdfs, the index is
\* the one rebuild of the directory, in memory and in the files.
C5_IngestsLeaveOneRebuild ==
    [][((\E t \in Callers : ~Idle(t) /\ Idle(t)') /\ AllIdle' /\ \A t \in Callers : IngestSucceeded(t)')
          => /\ metadata' = DirMetadata(dirFiles')
             /\ NumRows(vectors') = Len(metadata')
             /\ metadata' # <<>> =>
                   /\ metadataFile' = MetadataFileOf(DirMetadata(dirFiles'))
                   /\ indexFile' = IndexFileOf(DirVectors(dirFiles'), DirVectorizer(dirFiles'))]_vars

\* C6: the step by which ingest_pdfs returns success leaves the index
\* holding exactly the chunks of the PDF files now in the directory (and
\* their vectors), whatever it held before.
C6_IngestRebuildsFromDirectory ==
    [][\A t \in Callers :
          (loc[t].op = "ingest" /\ Idle(t)' /\ IngestSucceeded(t)')
          => /\ metadata' = DirMetadata(dirFiles')
             /\ vectors' = DirVectors(dirFiles')
             /\ result'[t].count = Len(DirMetadata(dirFiles'))]_vars
\* a successful ingest returned three chunks and the index is the rebuild
C6_Witness ==
    /\ AllIdle /\ IngestSucceeded(1) /\ result[1].count = 3
    /\ metadata = DirMetadata(dirFiles)

\* C7: when the process restarts after caller 1's last call was a
\* successful ingest_pdfs, the new engine is constructed and
\* retrieve_context returns for every query what it returned before.
C7_ReloadKeepsRetrieval ==
    [][(Restart /\ up /\ AllIdle /\ IngestSucceeded(1))
          => /\ up'
             /\ \A q \in Queries :
                   retrieve_context(q, TopK, metadata', vectors', vectorizer')
                   = retrieve_context(q, TopK, metadata, vectors, vectorizer)]_vars
\* the engine was constructed after a successful ingest and retrieval on
\* the loaded index finds chunks
C7_Witness ==
    /\ up /\ fresh /\ AllIdle /\ IngestSucceeded(1) /\ result[1].count > 1
    /\ retrieve_context(<<"dog">>, TopK, metadata, vectors, vectorizer) # <<>>

\* C8: a query call that is in flight eventually returns (or the process
\* stops): the wait for the generator ends.
C8_QueryEventuallyAnswered ==
    (loc[1].op = "query" /\ ~Idle(1)) ~> Idle(1)

\* C9: the generator is called only with a non-empty context, and a query
\* that returned an empty context returned the no-information answer and
\* sent no request to the generator.
C9_NoContextNoGenerator ==
    \A t \in Callers :
        /\ pc[t] \in {"generate_post", "generate_wait"} => loc[t].context # <<>>
        /\ gen[t] # NoRequest => (loc[t].context # <<>> \/ result[t].context # <<>>)
        /\ (result[t].op = "query" /\ result[t].context = <<>>)
              => (result[t] = NoContextResult /\ gen[t] = NoRequest)
\* a query on a populated index returned the no-information answer
C9_Witness ==
    /\ AllIdle /\ result[1] = NoContextResult /\ gen[1] = NoRequest
    /\ metadata # <<>> /\ ~vectors.none

\* C10: a query whose generator request failed returned (it did not raise)
\* the fallback message, which is not empty and not the provider's text.
C10_GeneratorFailureGivesFallback ==
    \A t \in Callers :
        (Idle(t) /\ gen[t] \in GeneratorFailures)
        => /\ result[t].kind = "returned" /\ result[t].op = "query"
           /\ result[t].answer = FallbackAnswer
           /\ result[t].answer \notin {"", ProviderErrorText}
\* a query returned the fallback after the generator answered with status 500
C10_Witness ==
    /\ Idle(1) /\ gen[1] = Http(500, TRUE, 0, FALSE, ProviderErrorText)
    /\ result[1].answer = FallbackAnswer /\ result[1].context # <<>>

Range(seq) == {seq[i] : i \in 1..Len(seq)}
\* the step of caller t by which a query call returns
QueryReturns(t) ==
    /\ result'[t] # result[t]
    /\ result'[t].kind = "returned" /\ result'[t].op = "query"

\* C11: every result query returns has the fields answer, context and
\* sources, and sources names exactly the documents the chunks of context
\* come from (none for an empty context).
C11_QueryResultNamesSources ==
    [][\A t \in Callers :
          QueryReturns(t)
          => /\ {"answer", "context", "sources"} \subseteq result'[t].keys
             /\ \A c \in Range(result'[t].context) :
                   \E i \in 1..Len(metadata) :
                      metadata[i].text = c /\ metadata[i].source \in Range(result'[t].sources)
             /\ \A d \in Range(result'[t].sources) :
                   \E i \in 1..Len(metadata) :
                      metadata[i].source = d /\ metadata[i].text \in Range(result'[t].context)]_vars

\* C12: POST /query with a question that is not blank, for which query
\* found no context, is answered with status 200 and the no-information
\* answer.
C12_NoContextQueryAnswered200 ==
    \A t \in Callers, q \in Queries :
        (result[t].kind = "returned" /\ result[t].op = "query" /\ result[t].context = <<>>)
        => query_knowledge(q, result[t]) = HttpOk(NoInfoAnswer)

\* ----- chunk_text (SpecChunk): the call of caller 1 has returned
ChunkDone == pc[1] = "idle" /\ loc[1].op = "chunk_text"
Words == split(loc[1].text)
Chunks == result[1].chunks
\* the tokens two chunks have in common (the tokens of a text are distinct)
Shared(c, d) == Cardinality(Range(c) \cap Range(d))
\* chunk c is the tokens of the text from position a on
SliceAt(c, a) == c # <<>> /\ a + Len(c) - 1 <= Len(Words) /\ c = SubSeq(Words, a, a + Len(c) - 1)

\* C13: for 0 <= overlap < chunk_size the chunks are slices of the token
\* sequence at increasing positions, every token is in some chunk, and
\* adjacent chunks share exactly overlap tokens, except the last pair.
C13_ChunksCoverWithOverlap ==
    (ChunkDone /\ loc[1].overlap < loc[1].chunk_size)
    => /\ result[1].kind = "returned"
       /\ \A k \in 1..Len(Chunks) : \E a \in 1..Len(Words) : SliceAt(Chunks[k], a)
       /\ \A k \in 1..Len(Chunks) - 1 :
             \E a, b \in 1..Len(Words) : a < b /\ SliceAt(Chunks[k], a) /\ SliceAt(Chunks[k + 1], b)
       /\ \A i \in 1..Len(Words) : \E k \in 1..Len(Chunks) : Words[i] \in Range(Chunks[k])
       /\ \A k \in 1..Len(Chunks) - 2 : Shared(Chunks[k], Chunks[k + 1]) = loc[1].overlap

\* C14: chunk_text with overlap >= chunk_size raises; it returns no chunk
\* list.
C14_NonPositiveStepRejected ==
    (ChunkDone /\ loc[1].overlap >= loc[1].chunk_size) => result[1].kind = "raised"

\* C15: a text of fewer than chunk_size tokens (overlap < chunk_size) gives
\* exactly one chunk, which holds all its tokens in order.
C15_ShortTextOneChunk ==
    (ChunkDone /\ loc[1].overlap < loc[1].chunk_size /\ Len(Words) < loc[1].chunk_size)
    => /\ result[1].kind = "returned"
       /\ Chunks = <<Words>>

\* ----- retrieve_context (SpecRetrieve): the call of caller 1 has returned
RetrieveDone == pc[1] = "idle" /\ loc[1].op = "retrieve_context"
Context == result[1].context
\* the query vector, and the vector of a chunk: its row in the matrix
QueryVector == Transform(vectorizer, loc[1].query)
RowOf(c) == Transform(vectorizer, c)
Score0(c) == Dot(QueryVector, RowOf(c)) = 0
Count(seq, x) == Cardinality({i \in 1..Len(seq) : seq[i] = x})
IndexTexts == ChunkTexts(metadata)

\* C16: no chunk of similarity 0 is in the result of retrieve_context; a
\* query without a term of the vocabulary gets the empty result.
C16_NoZeroScoreChunk ==
    RetrieveDone
    => /\ result[1].kind = "returned"
       /\ \A c \in Range(Context) : c \in Range(IndexTexts) /\ ~Score0(c)
       /\ (\A w \in Range(loc[1].query) : w \notin Range(vectorizer.vocab)) => Context = <<>>
\* a chunk of score 0 was left out though top_k had room for it
C16_Witness ==
    /\ RetrieveDone /\ Context # <<>> /\ Len(Context) < Len(metadata)
    /\ Len(metadata) <= loc[1].top_k
    /\ \E c \in Range(IndexTexts) : c # <<"the">> /\ Score0(c)

\* C17: retrieve_context returns at most top_k chunks, in non-increasing
\* order of score; they are as many as top_k and the number of
\* positive-score chunks allow, and every chunk that scores higher than
\* the lowest returned one is returned.
C17_TopKByDecreasingScore ==
    RetrieveDone
    => /\ Len(Context) = Min(loc[1].top_k, Cardinality({i \in 1..Len(IndexTexts) : ~Score0(IndexTexts[i])}))
       /\ \A k \in 1..Len(Context) - 1 :
             ~ScoreLess(QueryVector, RowOf(Context[k]), RowOf(Context[k + 1]))
       /\ \A x \in Range(IndexTexts) : Count(Context, x) <= Count(IndexTexts, x)
       /\ \A x \in Range(IndexTexts) :
             (Context # <<>> /\ ScoreLess(QueryVector, RowOf(Context[Len(Context)]), RowOf(x)))
             => Count(Context, x) = Count(IndexTexts, x)
\* three chunks of strictly decreasing score were returned from four
C17_Witness ==
    /\ RetrieveDone /\ Len(Context) = 3 /\ Len(metadata) = 4
    /\ ScoreLess(QueryVector, RowOf(Context[2]), RowOf(Context[1]))
    /\ ScoreLess(QueryVector, RowOf(Context[3]), RowOf(Context[2]))

\* The ranking with ties in insertion order: row i comes before row j when
\* it scores higher, or equal with i < j.
EarlierFirst(q, rows, top_k) ==
    LET n == Len(rows)
        Before(i, j) == ScoreLess(q, rows[j], rows[i])
                        \/ (~ScoreLess(q, rows[i], rows[j]) /\ ~ScoreLess(q, rows[j], rows[i]) /\ i < j)
        pos(i) == Cardinality({j \in 1..n : j # i /\ Before(j, i)})
    IN [p \in 1..Min(top_k, n) |-> CHOOSE i \in 1..n : pos(i) = p - 1]

\* C18: chunks of equal score are ranked in insertion order, the earlier
\* one first, and the earlier one is the one kept at the top_k cut-off.
C18_TiesInInsertionOrder ==
    (RetrieveDone /\ ~vectors.none /\ Len(QueryVector) = vectors.ncols)
    => LET top == EarlierFirst(QueryVector, vectors.rows, loc[1].top_k)
           hits == SelectSeq(top, LAMBDA i : Dot(QueryVector, vectors.rows[i]) > 0)
       IN Context = [k \in 1..Len(hits) |-> metadata[hits[k]].text]

\* ----- clear_index and the missing directory (Spec)
Cleared ==
    /\ metadata = <<>> /\ vectors = NoVectors
    /\ indexFile = AbsentIndexFile /\ metadataFile = AbsentMetadataFile
\* a step of a clear_index call of caller t
ClearStep(t) ==
    \/ ClearStart(t)
    \/ loc[t].op = "clear" /\ (ClearRemoveIndex(t) \/ ClearRemoveMetadata(t))

\* C19: clear_index can start in every state and never raises; when it
\* returns, the chunk list is empty, the vectors are absent and both files
\* are absent; run on a state that is already so, it changes nothing of it.
C19_ClearIsIdempotent ==
    [][\A t \in Callers :
          ClearStep(t)
          => /\ result'[t].kind # "raised"
             /\ Idle(t)' => (Cleared' /\ result'[t] = Returned("clear"))
             /\ Cleared => (index' = index /\ disk' = disk)]_vars
\* clear_index returned on an engine that had indexed documents
C19_Witness ==
    /\ AllIdle /\ result[1] = Returned("clear") /\ Cleared /\ vectorizer.fitted

\* C20: ingest_pdfs on a missing directory creates it, empty, and returns
\* status error with count 0 without raising; an ingest_pdfs call on the
\* existing directory, while it holds no PDF file, returns status warning
\* with count 0.
C20_MissingDirectoryThenWarning ==
    [][\A t \in Callers :
          /\ (IngestStart(t) /\ ~dirExists)
                => (Idle(t)' /\ result'[t] = IngestResult("error", 0)
                    /\ dirExists' /\ dirFiles' = {})
          /\ (IngestList(t) /\ dirFiles = {})
                => (Idle(t)' /\ result'[t] = IngestResult("warning", 0))]_vars
\* ingest_pdfs returned the warning on the directory it had created
C20_Witness ==
    /\ AllIdle /\ result[1] = IngestResult("warning", 0)
    /\ dirExists /\ dirFiles = {} /\ ~vectorizer.fitted

\* ----- ingest_pdfs, call by call (Spec)
\* a step of an ingest_pdfs call of caller t, after its start
IngestStep(t) ==
    /\ loc[t].op = "ingest"
    /\ \/ ClearRemoveIndex(t) \/ ClearRemoveMetadata(t) \/ IngestList(t) \/ IngestDoc(t)
       \/ IngestFit(t) \/ SaveOpenIndex(t) \/ SaveDumpIndex(t) \/ SaveOpenMetadata(t)
       \/ SaveDumpMetadata(t)

\* C21: an ingest_pdfs call on an existing directory without a PDF file
\* raises at no step and returns status warning with count 0, whatever the
\* index held.
C21_NoPdfGivesWarning ==
    [][\A t \in Callers :
          /\ (IngestStart(t) /\ dirExists /\ pdf_files(dirFiles) = <<>>) => ~Idle(t)'
          /\ (IngestStep(t) /\ pdf_files(dirFiles) = <<>>)
                => /\ result'[t].kind # "raised"
                   /\ Idle(t)' => result'[t] = IngestResult("warning", 0)]_vars
\* the warning was returned for a directory holding only notes.txt, by an
\* engine that had indexed documents before
C21_Witness ==
    /\ AllIdle /\ result[1] = IngestResult("warning", 0)
    /\ dirFiles = {4} /\ vectorizer.fitted

\* the chunks the index files hold
PersistedChunks ==
    IF metadataFile.state = "full" THEN Len(metadataFile.metadata) ELSE 0
PersistedRows ==
    IF indexFile.state = "full" THEN NumRows(indexFile.vectors) ELSE 0

\* C22: an ingest_pdfs call on a directory that holds a PDF file and whose
\* writes do not fail returns status success, with a count that is the
\* number of chunks of the documents, of the index and of the index files.
C22_SuccessCountsAllChunks ==
    [][\A t \in Callers :
          (IngestStep(t) /\ pdf_files(dirFiles) # <<>>)
          => /\ result'[t].kind = "raised" => result'[t].status = "OSError"
             /\ (Idle(t)' /\ result'[t].kind = "returned")
                   => /\ result'[t].status = "success"
                      /\ result'[t].count = Len(DirMetadata(dirFiles))
                      /\ result'[t].count = Len(metadata')
                      /\ result'[t].count = NumRows(vectors')
                      /\ result'[t].count = PersistedChunks'
                      /\ result'[t].count = PersistedRows']_vars

\* the step by which a write of save_index fails: the call ends in a save
\* step that is not the completed dump of the metadata file
SaveFails(t) ==
    /\ loc[t].op = "ingest"
    /\ SaveOpenIndex(t) \/ SaveDumpIndex(t) \/ SaveOpenMetadata(t) \/ SaveDumpMetadata(t)
    /\ Idle(t)'
    /\ ~(pc[t] = "save_dump_metadata" /\ metadataFile' = MetadataFileOf(metadata))

\* main.py:115-125: the response of POST /ingest when ingest_pdfs gave r
ingest_endpoint(r) ==
    IF r.kind = "returned" THEN [status_code |-> 200, status |-> r.status, count |-> r.count]
    ELSE [status_code |-> 500, status |-> "", count |-> 0]

\* C23: when a write of the index files fails, ingest_pdfs returns a result
\* with status error, and so does POST /ingest.
C23_SaveFailureReportedAsError ==
    [][\A t \in Callers :
          SaveFails(t)
          => /\ result'[t].kind = "returned" /\ result'[t].status = "error"
             /\ ingest_endpoint(result'[t]).status = "error"]_vars

\* the documents of the directory whose text can be extracted
Extractable(files) == {f \in files : extract_text_from_pdf(f) # <<>>}
HasUnextractable(files) == \E f \in files : IsPdf(f) /\ extract_text_from_pdf(f) = <<>>

ProducedBy(vecs, vz) ==
    /\ vz.fitted
    /\ Len(vz.vocab) = vecs.ncols
    /\ \A c \in 1..vecs.ncols :
          LET df == Cardinality({i \in 1..Len(vecs.rows) : vecs.rows[i][c] # 0})
          IN df >= 1 /\ vz.idf[c] = Idf(Len(vecs.rows), df)

\* C25: whenever the engine holds vectors, its vectorizer (the one
\* retrieve_context transforms the query with) is fitted on the documents
\* of those vectors, and so is the pair in the index file; while
\* ingest_pdfs saves, the vectors are the batch transformed by the
\* engine's vectorizer, fitted on the batch.
C25_VectorizerBuiltTheVectors ==
    /\ (up /\ ~vectors.none) => ProducedBy(vectors, vectorizer)
    /\ (indexFile.state = "full" /\ ~indexFile.vectors.none)
          => ProducedBy(indexFile.vectors, indexFile.vectorizer)
    /\ \A t \in Callers :
          pc[t] \in {"save_open_index", "save_dump_index", "save_open_metadata",
                     "save_dump_metadata"}
          => /\ vectorizer = Fit(loc[t].all_chunks)
             /\ vectors.rows = [i \in 1..Len(loc[t].all_chunks)
                                  |-> Transform(vectorizer, loc[t].all_chunks[i])]
\* the index was built from file 5 and the directory has changed since
C25_Witness ==
    /\ up /\ AllIdle /\ ~vectors.none
    /\ dirFiles = {1}
    /\ vectorizer = DirVectorizer({5}) /\ vectors = DirVectors({5})

\* the chunk_ids of the entries of source s in md, in insertion order
IdsOf(md, s) ==
    LET entries == SelectSeq(md, LAMBDA e : e.source = s)
    IN [k \in 1..Len(entries) |-> entries[k].chunk_id]
Sources(md) == {md[i].source : i \in 1..Len(md)}
SequentialIds(md) ==
    /\ \A s \in Sources(md) : IdsOf(md, s) = [k \in 1..Len(IdsOf(md, s)) |-> k - 1]
    /\ \A i, j \in 1..Len(md) :
          (md[i].source = md[j].source /\ md[i].chunk_id = md[j].chunk_id) => i = j

\* C26: at every moment, of the engine's metadata and of the metadata file,
\* the chunk_ids of each source's entries are 0, 1, ..., n-1 in insertion
\* order and no two entries have the same source and chunk_id.
C26_ChunkIdsSequentialPerSource ==
    /\ SequentialIds(metadata)
    /\ metadataFile.state = "full" => SequentialIds(metadataFile.metadata)
\* an index of three documents, one of them of two chunks
C26_Witness ==
    /\ up /\ AllIdle /\ Len(metadata) = 4
    /\ IdsOf(metadata, 5) = <<0, 1>>
    /\ Cardinality(Sources(metadata)) = 3

\* C27: whatever the index holds, GET /stats answers 200 with the fields
\* total_chunks, the number of index entries, and document_count, the
\* number of distinct sources among them.
C27_StatsCountsChunksAndDocuments ==
    up => LET r == get_stats(metadata)
          IN /\ r.status_code = 200
             /\ {"total_chunks", "document_count"} \subseteq r.keys
             /\ r.chunks = Len(metadata)
             /\ Cardinality(r.documents) = Cardinality(Sources(metadata))

\* C28: an ingest_pdfs call on a missing directory is over in its first
\* step and leaves metadata, vectors, vectorizer and both index files as
\* they were.
C28_MissingDirectoryKeepsIndex ==
    [][\A t \in Callers :
          (IngestStart(t) /\ ~dirExists)
          => /\ Idle(t)'
             /\ metadata' = metadata /\ vectors' = vectors /\ vectorizer' = vectorizer
             /\ indexFile' = indexFile /\ metadataFile' = metadataFile]_vars
\* the call returned its error on an engine that holds a saved index
C28_Witness ==
    /\ up /\ AllIdle /\ result[1] = IngestResult("error", 0)
    /\ Len(metadata) >= 2 /\ ~vectors.none
    /\ CompleteOnDisk /\ metadataFile.metadata = metadata
    /\ dirExists /\ dirFiles = {}

\* C29: when ingest_pdfs returns its warning (the directory exists and
\* holds no PDF file), metadata is empty, there are no vectors and neither
\* index file exists, whatever the index held when the call began.
C29_WarningLeavesIndexEmpty ==
    [][\A t \in Callers :
          (IngestList(t) /\ loc[t].op = "ingest" /\ Idle(t)'
             /\ result'[t].status = "warning")
          => (Cleared' /\ dirExists /\ pdf_files(dirFiles) = <<>>)]_vars
\* the warning was returned on an engine that had indexed documents, and
\* the directory is empty
C29_Witness ==
    /\ up /\ AllIdle /\ result[1] = IngestResult("warning", 0)
    /\ Cleared /\ vectorizer.fitted /\ dirFiles = {}

\* a step of a retrieve_context or query call of caller t
SearchStep(t) ==
    \/ \E op \in {"retrieve", "query"}, q \in Queries : RetrieveStart(t, op, q)
    \/ /\ loc[t].op \in {"retrieve", "query"}
       /\ RetrieveCompute(t) \/ GeneratePost(t) \/ GenerateReturn(t)

\* C30: no step of a retrieve_context or query call, whatever it returns
\* and whatever the generator answers, changes metadata, vectors,
\* vectorizer or either index file.
C30_SearchIsReadOnly ==
    [][\A t \in Callers :
          SearchStep(t)
          => /\ metadata' = metadata /\ vectors' = vectors /\ vectorizer' = vectorizer
             /\ indexFile' = indexFile /\ metadataFile' = metadataFile]_vars
\* a query on a saved index of several chunks returned after the generator
\* failed, and the index in memory is the saved one
C30_Witness ==
    /\ up /\ Idle(1) /\ result[1].op = "query" /\ result[1].kind = "returned"
    /\ gen[1] = NetError /\ Len(result[1].context) >= 2
    /\ CompleteOnDisk
    /\ metadataFile.metadata = metadata /\ indexFile.vectors = vectors
    /\ indexFile.vectorizer = vectorizer

\* ----- voice calls (SpecVoice)
Verbs(doc) == [i \in 1..Len(doc) |-> doc[i].verb]
\* the document ends the call or hands it to another route
EndsCall(doc) == doc # <<>> /\ doc[Len(doc)].verb \in {"Hangup", "Redirect"}
\* the speech holds an affirmative word, whatever the case of its letters
Affirmative(speech) == \E word \in AffirmativeWords : Contains(lower(speech), word)

\* C31: the document of each voice handler ends with Hangup or Redirect,
\* for every speech (none included) and every outcome of the query; after
\* a Gather the caller leaves unanswered, what is left of the document has
\* no other Gather and ends the same way; handle_continue gathers a new
\* question exactly when the speech holds an affirmative word, and says
\* goodbye and hangs up otherwise.
C31_VoiceResponsesEndTheCall ==
    [][\A t \in Callers :
          /\ (VoiceIncoming(t) \/ VoiceGather(t) \/ VoiceContinue(t))
                => EndsCall(result'[t].twiml)
          /\ TwilioGatherSilence(t)
                => /\ EndsCall(result'[t].twiml)
                   /\ \A i \in 1..Len(result'[t].twiml) : result'[t].twiml[i].verb # "Gather"
          /\ VoiceContinue(t)
                => IF Affirmative(loc[t].text)
                   THEN /\ Verbs(result'[t].twiml) = <<"Gather", "Say", "Hangup">>
                        /\ result'[t].twiml[1].arg = "/voice/gather"
                   ELSE Verbs(result'[t].twiml) = <<"Say", "Hangup">>]_vars
\* handle_continue answered "Yes" with a new question round
C31_Witness ==
    /\ pc[1] = "twiml" /\ result[1].op = "handle_continue"
    /\ loc[1].text = <<"Y", "e", "s">>
    /\ Head(result[1].twiml) = Gather("/voice/gather")
====
